---- MODULE Spec2Model ----
(***************************************************************************)
(* Model of the 8086 disassembler of src/assembler.py: the decode          *)
(* routines (dec_reg2reg, dec_i2reg, imm2reg_alt, imm2acc,                 *)
(* dec_modrm_instr) as operators and the driver loop of disassemble as a   *)
(* state machine with one action per branch of the loop body.              *)
(*                                                                         *)
(* Indices are Python's (0-based): At(s, k) is s[k], or None past the end. *)
(* A decode routine returns a text; the model keeps the three parts of the *)
(* text (mnemonic, destination, source) apart, each part the string the    *)
(* f-string builds, and Text joins them.                                   *)
(***************************************************************************)
EXTENDS Integers, Sequences, FiniteSets, TLC

\* ------------------------------------------------------------------ bounds

\* Longest stream drawn exhaustively from ByteSet.
MaxLen == 4

\* The byte values the exhaustive streams are built from: leading bytes of
\* each family the driver dispatches on, field bytes of every addressing
\* mode and of valid and invalid sub-opcodes, small and large immediates.
\*   0x00 add d=0 w=0       | mod=00 reg=000 rm=000
\*   0x2B sub d=1 w=1       | mod=00 reg=101 rm=011
\*   0x80 imm form s=0 w=0  | mod=10 reg=000 rm=000
\*   0x83 imm form s=1 w=1  | mod=10 reg=000 rm=011
\*   0x2C sub al, imm8      | mod=00 reg=101 rm=100
\*   0x06 no family         | mod=00 reg=000 rm=110 (direct address)
\*   0x46 no family         | mod=01 reg=000 rm=110
\*   0xC8 no family         | mod=11 reg=001 rm=000, immediate 200
\*   0xF8 no family         | mod=11 reg=111 rm=000, immediate 248
ByteSet == {0, 43, 128, 131, 44, 6, 70, 200, 248}

\* Streams of the documented scenarios, of the longest instruction forms
\* and of the opcodes ByteSet leaves out.
ExtraStreams ==
    { <<137, 216>>,                 \* 0x89 0xD8
      <<177, 12>>,                  \* 0xB1 0x0C
      <<136>>,                      \* 0x88
      <<185, 52, 18>>,              \* 0xB9 0x34 0x12
      <<131, 6, 0, 0, 7>>,          \* 0x83 0x06 0x00 0x00 0x07
      <<128, 70, 7, 5, 200>>,       \* 0x80 0x46 0x07 0x05 0xC8
      <<131, 128, 7, 248, 5, 44>>,  \* 0x83 0x80 0x07 0xF8 0x05 0x2C
      <<1, 216, 3, 216>>,           \* 0x01 0xD8 0x03 0xD8
      <<57, 70, 248, 59, 134, 0, 1>>,  \* 0x39 0x46 0xF8 0x3B 0x86 0x00 0x01
      <<61, 255, 255, 60, 7>>,      \* 0x3D 0xFF 0xFF 0x3C 0x07
      <<5, 200, 0, 5, 200>>,        \* 0x05 0xC8 0x00 0x05 0xC8
      <<5>> }                       \* 0x05

\* ------------------------------------------------------------------ tables

regtable ==
    << <<"al", "cl", "dl", "bl", "ah", "ch", "dh", "bh">>,
       <<"ax", "cx", "dx", "bx", "sp", "bp", "si", "di">> >>

eff_add_calc ==
    <<"bx + si", "bx + di", "bp + si", "bp + di", "si", "di", "bp", "bx">>

\* Python's None, the value of a byte past the end of the stream.
None == -1

\* regtable[wflag][field]
Reg(wflag, field) == regtable[wflag + 1][field + 1]

\* eff_add_calc[rm]
EA(rm) == eff_add_calc[rm + 1]

\* ------------------------------------------------------------- formatting

\* An integer as an f-string renders it.
Str(x) == ToString(x)

\* A byte of the stream, or None, as an f-string renders it.
StrOpt(b) == IF b = None THEN "None" ELSE ToString(b)

HexDigits == <<"0", "1", "2", "3", "4", "5", "6", "7",
               "8", "9", "a", "b", "c", "d", "e", "f">>

\* One hexadecimal digit of f"{addr:04x}": the digit of weight d.
HexDigit(addr, d) == HexDigits[((addr \div d) % 16) + 1]

\* f"{addr:04x}"
Hex4(addr) ==
    HexDigit(addr, 4096) \o HexDigit(addr, 256) \o HexDigit(addr, 16)
        \o HexDigit(addr, 1)

\* A decoded instruction f"{mn} {dst}, {src}".
Ins(mn, dst, src) ==
    [kind |-> "instr", mn |-> mn, dst |-> dst, src |-> src, msg |-> ""]

\* An error text returned in place of an instruction.
Err(msg) ==
    [kind |-> "error", mn |-> "", dst |-> "", src |-> "", msg |-> msg]

\* The text of a returned value.
Text(r) ==
    IF r.kind = "instr" THEN r.mn \o " " \o r.dst \o ", " \o r.src ELSE r.msg

\* ------------------------------------------------------------ bit fields

\* (b & 0b11111100) >> 2
Top6(b) == b \div 4

\* (b & 0b11111110) >> 1
Top7(b) == b \div 2

\* (b & 0b00000010) >> 1
Bit1(b) == (b \div 2) % 2

\* b & 0b00000001
Bit0(b) == b % 2

\* (b2 & 0b11000000) >> 6
ModOf(b2) == b2 \div 64

\* (b2 & 0b00111000) >> 3
RegOf(b2) == (b2 \div 8) % 8

\* b2 & 0b00000111
RmOf(b2) == b2 % 8

\* (hi << 8) | lo
Word(lo, hi) == hi * 256 + lo

\* v if v <= 127 else v - 256
Signed8(v) == IF v > 127 THEN v - 256 ELSE v

\* v if v <= 32767 else v - 65536
Signed16(v) == IF v > 32767 THEN v - 65536 ELSE v

\* --------------------------------------------------------- decode routines

\* Pick with the direction flag ignored: the first operand is always taken.
PickFirst(dflag, a, b) == a

\* The conditional expression "a if dflag else b" that orders the operands.
Pick(dflag, a, b) == IF dflag = 1 THEN a ELSE b

\* dec_reg2reg(b1, b2): the register-to-register form.
dec_reg2reg(b1, b2) ==
    LET dflag == Bit1(b1)
        wflag == Bit0(b1)
        op1 == Reg(wflag, RegOf(b2))
        op2 == Reg(wflag, RmOf(b2))
        opcode == Top6(b1)
        dst == Pick(dflag, op1, op2)
        src == Pick(dflag, op2, op1)
    IN  CASE opcode = 34 -> Ins("mov", dst, src)
          [] opcode = 0  -> Ins("add", dst, src)
          [] opcode = 10 -> Ins("sub", dst, src)
          [] opcode = 14 -> Ins("cmp", dst, src)
          [] OTHER -> Err("Error: Invalid opcode")

\* dec_i2reg(b1, b2, b3): mov of an immediate into a register.
dec_i2reg(b1, b2, b3) ==
    LET wflag == (b1 \div 8) % 2
        reg == Reg(wflag, b1 % 8)
    IN  IF wflag = 0
        THEN IF b2 = None
             THEN Err("Error: Missing immediate value")
             ELSE Ins("mov", reg, Str(Signed8(b2)))
        ELSE IF b2 = None \/ b3 = None
             THEN Err("Error: Missing immediate word")
             ELSE Ins("mov", reg, Str(Signed16(Word(b2, b3))))

\* What a call evaluates to: a raised exception, a lone text, or a
\* (text, size) pair.
Raise(exc) == [exc |-> exc, pair |-> FALSE, instr |-> Err(""), size |-> 0]

Ret1(instr) == [exc |-> "", pair |-> FALSE, instr |-> instr, size |-> 0]

Ret2(instr, size) == [exc |-> "", pair |-> TRUE, instr |-> instr, size |-> size]

\* The immediate imm2reg_alt emits: b4 if mod == 0b01 and b5 == None else b5
\* under mod 01 and 10, b3 otherwise.
imm2reg_alt_imm(mod, b3, b4, b5) ==
    IF mod \in {1, 2}
    THEN IF mod = 1 /\ b5 = None THEN b4 ELSE b5
    ELSE b3

\* The size imm2reg_alt returns.
imm2reg_alt_size(mod) ==
    IF mod \in {1, 2} THEN (IF mod = 1 THEN 4 ELSE 5) ELSE 3

\* imm2reg_alt(b1, b2, b3, b4, b5): the immediate-to-register-or-memory
\* form.  An operation on None raises TypeError: b2 & mask (line 59),
\* displacement > 127 with the displacement b3 (line 76), b4 << 8 (line 75).
imm2reg_alt(b1, b2, b3, b4, b5) ==
    IF b2 = None THEN Raise("TypeError") ELSE
    LET wflag == Bit0(b1)
        instruction_code == RegOf(b2)
        rm == RmOf(b2)
        mod == ModOf(b2)
        instruction ==
            CASE instruction_code = 0 -> "add"
              [] instruction_code = 5 -> "sub"
              [] instruction_code = 7 -> "cmp"
              [] OTHER -> "Error"
        dest0 ==
            CASE mod = 3 -> Reg(wflag, rm)
              [] mod = 0 -> "byte [" \o EA(rm) \o "]"
              [] OTHER -> EA(rm)
        displacement ==
            IF mod = 1 THEN Signed8(b3) ELSE Signed16(Word(b3, b4))
        dest1 ==
            (IF wflag = 1 THEN "word [" ELSE "byte [")
                \o dest0 \o " + " \o Str(displacement) \o "]"
    IN  IF instruction = "Error"
        THEN Ret1(Err("Error: Invalid instruction code"))
        ELSE IF mod \in {1, 2}
        THEN IF (mod = 1 /\ b3 = None) \/ (mod = 2 /\ b4 = None)
             THEN Raise("TypeError")
             ELSE Ret2(Ins(instruction, dest1,
                           StrOpt(imm2reg_alt_imm(mod, b3, b4, b5))),
                       imm2reg_alt_size(mod))
        ELSE Ret2(Ins(instruction, dest0,
                      StrOpt(imm2reg_alt_imm(mod, b3, b4, b5))),
                  imm2reg_alt_size(mod))

\* Python's truth value of an integer.
Truthy(n) == n # 0

\* imm2acc(b1, b2, b3): the immediate-to-accumulator form.  The test of
\* line 103 is "opcode == 0b0000010 or 0b0010110".
imm2acc(b1, b2, b3) ==
    LET wflag == Bit0(b1)
        dest == Reg(wflag, 0)
        opcode == Top7(b1)
        instruction ==
            CASE opcode = 2 -> "add"
              [] opcode = 22 -> "sub"
              [] OTHER -> "cmp"
    IN  IF opcode = 2 \/ Truthy(22)
        THEN IF wflag = 0
             THEN IF b2 = None
                  THEN Err("Error: Missing immediate value")
                  ELSE Ins(instruction, dest, Str(Signed8(b2)))
             ELSE IF b2 = None \/ b3 = None
                  THEN Err("Error: Missing immediate word")
                  ELSE Ins(instruction, dest, Str(Signed16(Word(b2, b3))))
        ELSE Ins(instruction, dest, StrOpt(b2))

\* dec_modrm_instr(b1, b2, b3, b4): the register/memory form with a memory
\* operand.
dec_modrm_instr(b1, b2, b3, b4) ==
    LET dflag == Bit1(b1)
        wflag == Bit0(b1)
        reg_field == RegOf(b2)
        rm == RmOf(b2)
        mod == ModOf(b2)
        op1 == Reg(wflag, reg_field)
        opcode == Top6(b1)
        instruction ==
            CASE opcode = 0 -> "add"
              [] opcode = 10 -> "sub"
              [] opcode = 14 -> "cmp"
              [] OTHER -> "Error"
        Out(ea) ==
            Ins(instruction, Pick(dflag, op1, ea), Pick(dflag, ea, op1))
    IN  IF instruction = "Error" THEN Err("Error: Invalid opcode")
        ELSE CASE mod = 0 ->
                    IF rm = 6
                    THEN IF b3 = None \/ b4 = None
                         THEN Err("Error: Missing direct address bytes")
                         ELSE Out("[0x" \o Hex4(Word(b3, b4)) \o "]")
                    ELSE Out("[" \o EA(rm) \o "]")
               [] mod = 1 ->
                    IF b3 = None
                    THEN Err("Error: Missing 8-bit displacement")
                    ELSE Out("[" \o EA(rm) \o " + " \o Str(Signed8(b3)) \o "]")
               [] mod = 2 ->
                    IF b3 = None \/ b4 = None
                    THEN Err("Error: Missing 16-bit displacement")
                    ELSE Out(EA(rm) \o " + " \o Str(Signed16(Word(b3, b4))))
               [] OTHER ->
                    Err("Error: mod=3 (register addressing) should be handled elsewhere")

\* ------------------------------------------------------------------ driver

VARIABLES
    byte_list,  \* the bytes of the file
    i,          \* the cursor of the driver loop
    pc,         \* "loop": in the while loop; "done": the loop was left;
                \* "raised": an exception left disassemble
    out         \* what was printed, one record per line

vars == <<byte_list, i, pc, out>>

\* byte_list[k] if k < len(byte_list) else None
At(s, k) == IF k < Len(s) THEN s[k + 1] ELSE None

\* byte_list[k:k+n]
Slice(s, k, n) ==
    LET hi == IF k + n < Len(s) THEN k + n ELSE Len(s)
    IN  IF k >= hi THEN <<>> ELSE SubSeq(s, k + 1, hi)

\* The families the driver dispatches on, in the order of its if chain.
IsRegMem(b1) == Top6(b1) \in {0, 10, 14}

IsImmRegMem(b1) == Top6(b1) = 32

IsImmAcc(b1) == Top7(b1) \in {2, 22, 30}

\* displacement_size of the register/memory branch.
displacement_size(mod, rm) ==
    CASE mod = 0 /\ rm = 6 -> 2
      [] mod = 1 -> 1
      [] mod = 2 -> 2
      [] OTHER -> 0

\* The bytes b2..b5 handed to imm2reg_alt.
ImmRegMemCall(s, k) ==
    imm2reg_alt(s[k + 1], At(s, k + 1), At(s, k + 2), At(s, k + 3), At(s, k + 4))

\* One iteration of the while loop at cursor k of stream s: the branch
\* taken, the exception raised (if any), whether the loop is left by break,
\* the line printed and the amount added to the cursor.
Outcome(branch, exc, brk, tag, instr, size) ==
    [branch |-> branch, exc |-> exc, brk |-> brk, tag |-> tag,
     instr |-> instr, size |-> size]

\* if (b1 & 0b11111100) >> 2 in [0b000000, 0b001010, 0b001110]
RegMemIter(s, k) ==
    IF k + 1 >= Len(s)
    THEN Outcome("regmem", "", TRUE, "Error", Err("Error: Missing MODRM byte"), 0)
    ELSE LET b1 == s[k + 1]
             b2 == s[k + 2]
             mod == ModOf(b2)
             rm == RmOf(b2)
         IN  IF mod = 3
             THEN Outcome("regmem", "", FALSE, "Decoded", dec_reg2reg(b1, b2), 2)
             ELSE Outcome("regmem", "", FALSE, "Decoded",
                          dec_modrm_instr(b1, b2, At(s, k + 2), At(s, k + 3)),
                          2 + displacement_size(mod, rm))

\* elif (b1 & 0b11111100) >> 2 == 0b100000; "instr, instr_size = <text>"
\* raises ValueError.
ImmRegMemIter(s, k) ==
    LET r == ImmRegMemCall(s, k)
    IN  IF r.exc # ""
        THEN Outcome("immregmem", r.exc, FALSE, "Traceback", Err(r.exc), 0)
        ELSE IF ~r.pair
        THEN Outcome("immregmem", "ValueError", FALSE, "Traceback",
                     Err("ValueError"), 0)
        ELSE Outcome("immregmem", "", FALSE, "Decoded", r.instr, r.size)

\* elif (b1 & 0b11111110) >> 1 in [0b0000010, 0b0010110, 0b0011110]
ImmAccIter(s, k) ==
    LET b1 == s[k + 1]
        wflag == Bit0(b1)
        instr_size == IF wflag = 1 THEN 3 ELSE 2
    IN  Outcome("immacc", "", FALSE, "Decoded",
                imm2acc(b1, At(s, k + 1), At(s, k + 2)), instr_size)

\* UnknownAdvance with the increment left out: the cursor stays.
UnknownAdvanceNone == 1 - 1

\* UnknownAdvance with an increment of two: a byte is skipped.
UnknownAdvanceTwo == 1 + 1

\* else: i += 1
UnknownAdvance == 1

\* The else branch: the byte is reported and the cursor moves on.

UnknownIter(s, k) ==
    Outcome("unknown", "", FALSE, "Unknown", Err("Unknown opcode"), UnknownAdvance)

\* The body of the while loop at cursor k < len(s).
Iter(s, k) ==
    LET b1 == s[k + 1]
    IN  CASE IsRegMem(b1) -> RegMemIter(s, k)
          [] ~IsRegMem(b1) /\ IsImmRegMem(b1) -> ImmRegMemIter(s, k)
          [] ~IsRegMem(b1) /\ ~IsImmRegMem(b1) /\ IsImmAcc(b1) -> ImmAccIter(s, k)
          [] OTHER -> UnknownIter(s, k)

\* The line an iteration prints.
Line(s, k, r) ==
    [at |-> k, tag |-> r.tag, instr |-> r.instr, text |-> Text(r.instr),
     size |-> r.size, used |-> Slice(s, k, r.size)]

\* The streams the file may hold.
Streams ==
    UNION { [1..n -> ByteSet] : n \in 0..MaxLen } \cup ExtraStreams

Init ==
    /\ byte_list \in Streams
    /\ i = 0
    /\ pc = "loop"
    /\ out = <<>>

\* The effect of one iteration with outcome r: the line is printed, the
\* cursor advances by the size, and the loop goes on, is left by break, or
\* is left by the exception.
Advance(r) ==
    /\ out' = Append(out, Line(byte_list, i, r))
    /\ pc' = IF r.exc # "" THEN "raised" ELSE IF r.brk THEN "done" ELSE "loop"
    /\ i' = i + r.size
    /\ UNCHANGED byte_list

\* An iteration in the register/memory branch (lines 189-219).
RegMemStep ==
    /\ pc = "loop"
    /\ i < Len(byte_list)
    /\ IsRegMem(byte_list[i + 1])
    /\ Advance(RegMemIter(byte_list, i))

\* An iteration in the immediate-to-register-or-memory branch (lines 222-233).
ImmRegMemStep ==
    /\ pc = "loop"
    /\ i < Len(byte_list)
    /\ ~IsRegMem(byte_list[i + 1])
    /\ IsImmRegMem(byte_list[i + 1])
    /\ Advance(ImmRegMemIter(byte_list, i))

\* An iteration in the immediate-to-accumulator branch (lines 235-247).
ImmAccStep ==
    /\ pc = "loop"
    /\ i < Len(byte_list)
    /\ ~IsRegMem(byte_list[i + 1])
    /\ ~IsImmRegMem(byte_list[i + 1])
    /\ IsImmAcc(byte_list[i + 1])
    /\ Advance(ImmAccIter(byte_list, i))

\* An iteration in the else branch (lines 249-251).
UnknownStep ==
    /\ pc = "loop"
    /\ i < Len(byte_list)
    /\ ~IsRegMem(byte_list[i + 1])
    /\ ~IsImmRegMem(byte_list[i + 1])
    /\ ~IsImmAcc(byte_list[i + 1])
    /\ Advance(UnknownIter(byte_list, i))

\* while i < len(byte_list) fails.
LoopExit ==
    /\ pc = "loop"
    /\ i >= Len(byte_list)
    /\ pc' = "done"
    /\ UNCHANGED <<byte_list, i, out>>

Next ==
    \/ RegMemStep
    \/ ImmRegMemStep
    \/ ImmAccStep
    \/ UnknownStep
    \/ LoopExit

Spec == Init /\ [][Next]_vars

\* The interpreter runs the loop until it is left.
FairSpec == Spec /\ WF_vars(Next)

\* ------------------------------------------------------------- properties

\* The lines printed so far.
Lines == { out[k] : k \in 1..Len(out) }

\* The leading byte and the field byte of the iteration that printed l.
LeadOf(l) == byte_list[l.at + 1]

FieldOf(l) == At(byte_list, l.at + 1)

\* A line that holds a decoded instruction (not an error text).
IsInstr(l) == l.tag = "Decoded" /\ l.instr.kind = "instr"

\* The stream s with the byte at index j replaced by v.
Poke(s, j, v) == [s EXCEPT ![j + 1] = v]

\* C1: after every iteration the cursor satisfies 0 <= i <= len(byte_list).
CursorWithinStream == 0 <= i /\ i <= Len(byte_list)

\* C2: the instruction decoded at a cursor depends only on the bytes of
\* [cursor, cursor + instr_size): changing any byte outside that window
\* leaves the instruction decoded there unchanged.
WindowDeterminesInstruction ==
    \A l \in Lines :
        IsInstr(l) =>
            \A j \in 0..(Len(byte_list) - 1) :
                (j < l.at \/ j >= l.at + l.size) =>
                    \A v \in ByteSet :
                        Iter(Poke(byte_list, j, v), l.at).instr = l.instr

\* The displacement/address bytes of an addressing mode, as C3 states them.
ModeBytes(mod, rm) ==
    CASE mod = 3 -> 0
      [] mod = 0 /\ rm # 6 -> 0
      [] mod = 0 /\ rm = 6 -> 2
      [] mod = 1 -> 1
      [] mod = 2 -> 2

\* C3: in both forms with a field byte the displacement bytes consumed are
\* those of the addressing mode (the register/memory form consumes the two
\* leading bytes and the displacement, the immediate form one or two
\* immediate bytes more), and 0x83 0x06 0x00 0x00 0x07 is one instruction
\* of length 5 with immediate 7.
DisplacementByMode ==
    /\ \A l \in Lines :
        (IsInstr(l) /\ FieldOf(l) # None) =>
            LET d == ModeBytes(ModOf(FieldOf(l)), RmOf(FieldOf(l)))
            IN  /\ IsRegMem(LeadOf(l)) => l.size = 2 + d
                /\ IsImmRegMem(LeadOf(l)) => l.size - (2 + d) \in {1, 2}
    /\ (byte_list = <<131, 6, 0, 0, 7>> /\ out # <<>>) =>
            /\ IsInstr(out[1])
            /\ out[1].size = 5
            /\ out[1].instr.src = "7"

\* The byte imm2reg_alt takes as the immediate of the instruction at k.
ImmByteAt(s, k) ==
    imm2reg_alt_imm(ModOf(s[k + 2]), At(s, k + 2), At(s, k + 3), At(s, k + 4))

\* C4: every immediate a decode routine emits is the two's-complement
\* value of its bytes (8-bit: v - 256 from 128 on; 16-bit: the word - 65536
\* from 32768 on), for imm2reg_alt and imm2acc as the driver calls them and
\* for dec_i2reg on the bytes of the stream.
ImmediatesAreSigned ==
    /\ \A l \in Lines :
        (IsInstr(l) /\ IsImmRegMem(LeadOf(l))
                /\ ImmByteAt(byte_list, l.at) # None) =>
            l.instr.src = ToString(Signed8(ImmByteAt(byte_list, l.at)))
    /\ \A l \in Lines :
        (IsInstr(l) /\ IsImmAcc(LeadOf(l))) =>
            l.instr.src =
                IF Bit0(LeadOf(l)) = 0
                THEN ToString(Signed8(byte_list[l.at + 2]))
                ELSE ToString(Signed16(Word(byte_list[l.at + 2], byte_list[l.at + 3])))
    /\ \A k \in 0..(Len(byte_list) - 1) : \A reg \in 0..7 :
        /\ k + 1 < Len(byte_list) =>
            dec_i2reg(176 + reg, byte_list[k + 1], byte_list[k + 2]).src =
                ToString(Signed8(byte_list[k + 1]))
        /\ k + 2 < Len(byte_list) =>
            dec_i2reg(184 + reg, byte_list[k + 1], byte_list[k + 2]).src =
                ToString(Signed16(Word(byte_list[k + 1], byte_list[k + 2])))

\* The leading bytes of the two MOV families.
IsMovRegMem(b1) == Top6(b1) = 34

IsMovImm(b1) == b1 \div 16 = 11

\* C5: the driver decodes the MOV families: 100010dw with a mod=11 field
\* byte as a two-byte mov between registers, 1011wreg as a mov of an
\* immediate of 2 or 3 bytes; 0x89 0xD8 gives "mov ax, bx" and 0xB1 0x0C
\* gives "mov cl, 12".
MovFamiliesDecoded ==
    /\ \A l \in Lines :
        /\ (IsMovRegMem(LeadOf(l)) /\ FieldOf(l) # None /\ ModOf(FieldOf(l)) = 3) =>
            /\ l.tag = "Decoded"
            /\ l.instr = dec_reg2reg(LeadOf(l), FieldOf(l))
            /\ l.size = 2
        /\ (IsMovImm(LeadOf(l)) /\ l.at + 2 + ((LeadOf(l) \div 8) % 2) <= Len(byte_list)) =>
            /\ l.tag = "Decoded"
            /\ l.instr = dec_i2reg(LeadOf(l), FieldOf(l), At(byte_list, l.at + 2))
            /\ l.size = 2 + ((LeadOf(l) \div 8) % 2)
    /\ (byte_list = <<137, 216>> /\ out # <<>>) => out[1].text = "mov ax, bx"
    /\ (byte_list = <<177, 12>> /\ out # <<>>) => out[1].text = "mov cl, 12"

\* The least number of bytes the instruction that starts at k needs: the
\* leading byte, the field byte, the bytes of the addressing mode and one
\* immediate byte (two for a word immediate without a field byte).
Needs(s, k) ==
    LET b1 == s[k + 1]
        b2 == At(s, k + 1)
        d == IF b2 = None THEN 0 ELSE ModeBytes(ModOf(b2), RmOf(b2))
    IN  CASE IsRegMem(b1) \/ IsMovRegMem(b1) -> 2 + d
          [] IsImmRegMem(b1) -> 2 + d + 1
          [] IsImmAcc(b1) -> 2 + Bit0(b1)
          [] IsMovImm(b1) -> 2 + ((b1 \div 8) % 2)
          [] OTHER -> 1

\* The stream ends before the instruction that starts at k is complete.
CutOff(s, k) == k + Needs(s, k) > Len(s)

\* C6: when the stream ends before a required field, displacement or
\* immediate byte, the driver reports a missing-bytes fault at that
\* position, emits no instruction there, raises no exception and prints
\* nothing after it.
MissingBytesReported ==
    \A k \in 1..Len(out) :
        CutOff(byte_list, out[k].at) =>
            /\ out[k].tag \in {"Error", "Decoded"}
            /\ out[k].instr.kind = "error"
            /\ k = Len(out)
            /\ pc # "raised"

\* The field byte of the immediate form at k selects none of add, sub, cmp.
InvalidSubOpcode(s, k) ==
    /\ IsImmRegMem(s[k + 1])
    /\ k + 1 < Len(s)
    /\ RegOf(s[k + 2]) \notin {0, 5, 7}

\* C7: an invalid sub-opcode is reported for its position and does not
\* abort the decode: no exception leaves the loop, and the cursor moves on.
InvalidSubOpcodeIsLocal ==
    \A k \in 1..Len(out) :
        InvalidSubOpcode(byte_list, out[k].at) =>
            /\ out[k].tag # "Traceback"
            /\ out[k].instr.kind = "error"
            /\ pc # "raised"
            /\ k = Len(out) => i > out[k].at

\* The loop was left by the break of the register/memory branch.
LeftByBreak == out # <<>> /\ out[Len(out)].tag = "Error"

Unrecognized(b1) == ~IsRegMem(b1) /\ ~IsImmRegMem(b1) /\ ~IsImmAcc(b1)

\* C9: a leading byte of no family is reported as undecodable, the cursor
\* moves to exactly the next byte, and the loop goes on there: the next
\* line, if there is a next byte, is what the driver decodes at that byte.
UnknownByteResync ==
    \A k \in 1..Len(out) :
        LET l == out[k]
        IN  /\ Unrecognized(LeadOf(l)) <=> l.tag = "Unknown"
            /\ l.tag = "Unknown" =>
                /\ l.used = <<LeadOf(l)>>
                /\ k < Len(out) =>
                    out[k + 1] =
                        Line(byte_list, l.at + 1, Iter(byte_list, l.at + 1))
                /\ k = Len(out) =>
                    /\ i = l.at + 1
                    /\ pc = "loop" \/ (pc = "done" /\ i >= Len(byte_list))

\* An undecodable byte was skipped and the instruction after it decoded.
DecodedAfterUnknown ==
    \E k \in 1..(Len(out) - 1) :
        /\ out[k].tag = "Unknown"
        /\ IsInstr(out[k + 1])
        /\ out[k + 1].at = out[k].at + 1

\* The leading byte with its direction bit (bit 1) flipped.
FlipDirection(b1) == IF Bit1(b1) = 1 THEN b1 - 2 ELSE b1 + 2

\* C10: in the register/memory form, flipping the direction bit of the
\* leading byte keeps the mnemonic and the size and swaps destination and
\* source; with direction 1 the reg-field register is the destination, with
\* direction 0 it is the source.
DirectionSwapsOperands ==
    \A l \in Lines :
        (IsInstr(l) /\ IsRegMem(LeadOf(l))) =>
            LET b1 == LeadOf(l)
                r == Iter(Poke(byte_list, l.at, FlipDirection(b1)), l.at)
                reg == Reg(Bit0(b1), RegOf(FieldOf(l)))
            IN  /\ r.tag = "Decoded" /\ r.instr.kind = "instr"
                /\ r.size = l.size
                /\ r.instr.mn = l.instr.mn
                /\ r.instr.dst = l.instr.src
                /\ r.instr.src = l.instr.dst
                /\ Bit1(b1) = 1 => l.instr.dst = reg
                /\ Bit1(b1) = 0 => l.instr.src = reg

\* Both directions of a form with a memory operand were decoded.
BothDirectionsDecoded ==
    \E l1 \in Lines : \E l2 \in Lines :
        /\ IsInstr(l1) /\ IsRegMem(LeadOf(l1)) /\ Bit1(LeadOf(l1)) = 1
        /\ IsInstr(l2) /\ IsRegMem(LeadOf(l2)) /\ Bit1(LeadOf(l2)) = 0
        /\ ModOf(FieldOf(l1)) # 3 /\ l1.instr.dst # l1.instr.src

====
